---- MODULE Spec2Model ----
(***************************************************************************)
(* The four repair scripts of scripts/: fix-regex.py,                      *)
(* final-typescript-fixes.py, final-build-fixes.py and                     *)
(* fix_final_const_errors.py.  A file's text is a string; the file system  *)
(* is a function from path to text (or Missing).  Every script is a        *)
(* sequential process whose steps are its file-system operations; the      *)
(* in-memory transformations are operators computed as Python computes     *)
(* them (str.replace, str.split, str.strip, re.sub).                       *)
(***************************************************************************)
EXTENDS Integers, Sequences, FiniteSets, TLC

VARIABLES
    disk,              \* path -> File(text on disk), or Missing
    pre,               \* path -> the file on disk when the current run started
    pc,                \* position of the running script
    k,                 \* index of the loop over `fixes` / `files_to_fix_const`
    content,           \* the script's local `content` (text to be written)
    original_content,  \* the text the script read from the current file
    fixed_count,       \* final-typescript-fixes.py: fixed_count
    writes,            \* path -> number of open(path, 'w') in the current run
    run                \* number of the current run of the script

vars == <<disk, pre, pc, k, content, original_content, fixed_count, writes, run>>

\* a path that does not exist, and a file holding text
Missing == [exists |-> FALSE, text |-> ""]
File(text) == [exists |-> TRUE, text |-> text]

(***************************************************************************)
(* Bounds of the model.                                                    *)
(***************************************************************************)
MaxRuns == 2        \* runs of one script in a row
MaxChunks == 3      \* pieces a router.ts / tenant.ts text is made of
MaxLines == 4       \* lines of a line-scanned file
MaxPresent == 2     \* target files of final-typescript-fixes.py that exist

(***************************************************************************)
(* Python str operations.                                                  *)
(***************************************************************************)
Ch(s, i) == SubSeq(s, i, i)

Chars(s) == {Ch(s, i) : i \in 1..Len(s)}

Whitespace == {" ", "\t", "\n", "\r", "\f"}

WordChars == Chars("abcdefghijklmnopqrstuvwxyzABCDEFGHIJKLMNOPQRSTUVWXYZ0123456789_")

\* s[i-1:].startswith(p), i counted from 1
StartsAt(s, p, i) == i + Len(p) - 1 <= Len(s) /\ SubSeq(s, i, i + Len(p) - 1) = p

StartsWith(s, p) == StartsAt(s, p, 1)

EndsWith(s, p) == Len(p) <= Len(s) /\ SubSeq(s, Len(s) - Len(p) + 1, Len(s)) = p

\* p in s
Contains(s, p) == \E i \in 1..(Len(s) - Len(p) + 1) : StartsAt(s, p, i)

\* s.find(p), counted from 1; 0 when p does not occur
Find(s, p) ==
    IF Contains(s, p)
    THEN CHOOSE i \in 1..(Len(s) - Len(p) + 1) :
            StartsAt(s, p, i) /\ \A j \in 1..(i - 1) : ~StartsAt(s, p, j)
    ELSE 0

Min(S) == CHOOSE x \in S : \A y \in S : x <= y

RECURSIVE ReplaceFrom(_, _, _, _)
\* the part of s.replace(old, new) from position i on: the text up to the next
\* occurrence of old is kept, the occurrence replaced, and the scan goes on after it
ReplaceFrom(s, old, new, i) ==
    LET found == {j \in i..(Len(s) - Len(old) + 1) : StartsAt(s, old, j)} IN
    IF found = {} THEN SubSeq(s, i, Len(s))
    ELSE SubSeq(s, i, Min(found) - 1) \o new
         \o ReplaceFrom(s, old, new, Min(found) + Len(old))

\* s.replace(old, new) for a non-empty old: non-overlapping, left to right
Replace(s, old, new) == ReplaceFrom(s, old, new, 1)

RECURSIVE LStrip(_)
LStrip(s) == IF Len(s) > 0 /\ Head(s) \in Whitespace THEN LStrip(Tail(s)) ELSE s

RECURSIVE RStrip(_)
RStrip(s) ==
    IF Len(s) > 0 /\ Ch(s, Len(s)) \in Whitespace
    THEN RStrip(SubSeq(s, 1, Len(s) - 1)) ELSE s

\* s.strip()
Strip(s) == RStrip(LStrip(s))

RECURSIVE SplitFrom(_, _)
SplitFrom(s, i) ==
    LET newlines == {j \in i..Len(s) : Ch(s, j) = "\n"} IN
    IF newlines = {} THEN <<SubSeq(s, i, Len(s))>>
    ELSE <<SubSeq(s, i, Min(newlines) - 1)>> \o SplitFrom(s, Min(newlines) + 1)

\* s.split('\n')
SplitLines(s) == SplitFrom(s, 1)

RECURSIVE JoinLines(_)
\* '\n'.join(lines)
JoinLines(lines) ==
    IF Len(lines) = 0 THEN ""
    ELSE IF Len(lines) = 1 THEN lines[1]
    ELSE lines[1] \o "\n" \o JoinLines(Tail(lines))

\* open(path, 'r').read(): text mode translates "\r\n" and "\r" to "\n"
ReadText(bytes) == Replace(Replace(bytes, "\r\n", "\n"), "\r", "\n")

(***************************************************************************)
(* Python re.sub.  A pattern is a sequence of elements:                    *)
(*   Lit(s)         the literal text s                                     *)
(*   Rep(cls, min)  greedy repetition of a character of cls, at least min  *)
(*   NRep(cls, min) greedy repetition of a character not in cls            *)
(*   One(cls)       one character of cls                                   *)
(*   Alt(opts)      the first of the literal alternatives that leads to a  *)
(*                  match                                                  *)
(*   Open(g), Close(g)  the parentheses of capturing group g               *)
(*   WordB          \b                                                     *)
(*   Look(p)        the lookahead (?=p)                                    *)
(* Matching backtracks as re does: a repetition gives characters back,     *)
(* longest first, until the rest of the pattern matches.                   *)
(***************************************************************************)
Lit(s) == [t |-> "lit", s |-> s]
Rep(cls, min) == [t |-> "rep", cls |-> cls, neg |-> FALSE, min |-> min]
NRep(cls, min) == [t |-> "rep", cls |-> cls, neg |-> TRUE, min |-> min]
One(cls) == [t |-> "one", cls |-> cls]
Alt(opts) == [t |-> "alt", opts |-> opts]
Open(g) == [t |-> "open", g |-> g]
Close(g) == [t |-> "close", g |-> g]
WordB == [t |-> "wb"]
Look(p) == [t |-> "look", p |-> p]

\* replacement templates: literal text and group references \g
T(s) == [t |-> "lit", s |-> s]
G(g) == [t |-> "grp", g |-> g]

NoMatch == [ok |-> FALSE]
NoCaps == [g \in 1..2 |-> <<1, 0>>]

InClass(e, c) == IF e.neg THEN c \notin e.cls ELSE c \in e.cls

\* number of consecutive characters of s from position i on that element e accepts
RunLen(e, s, i) ==
    LET rejected == {j \in i..Len(s) : ~InClass(e, Ch(s, j))} IN
    IF rejected = {} THEN Len(s) - i + 1 ELSE Min(rejected) - i

IsWord(s, i) == i >= 1 /\ i <= Len(s) /\ Ch(s, i) \in WordChars

RECURSIVE Match(_, _, _, _, _)
RECURSIVE TryRep(_, _, _, _, _, _)
RECURSIVE TryAlt(_, _, _, _, _, _)

\* match p[j..] against s from position i; the result carries the position
\* after the match and the captured groups
Match(p, j, s, i, caps) ==
    IF j > Len(p) THEN [ok |-> TRUE, end |-> i, caps |-> caps]
    ELSE LET e == p[j] IN
         CASE e.t = "lit" ->
                IF StartsAt(s, e.s, i) THEN Match(p, j + 1, s, i + Len(e.s), caps)
                ELSE NoMatch
           [] e.t = "rep" -> TryRep(p, j, s, i, RunLen(e, s, i), caps)
           [] e.t = "one" ->
                IF i <= Len(s) /\ Ch(s, i) \in e.cls THEN Match(p, j + 1, s, i + 1, caps)
                ELSE NoMatch
           [] e.t = "alt" -> TryAlt(p, j, s, i, 1, caps)
           [] e.t = "open" ->
                Match(p, j + 1, s, i, [caps EXCEPT ![e.g] = <<i, i - 1>>])
           [] e.t = "close" ->
                Match(p, j + 1, s, i, [caps EXCEPT ![e.g] = <<caps[e.g][1], i - 1>>])
           [] e.t = "wb" ->
                IF IsWord(s, i - 1) # IsWord(s, i) THEN Match(p, j + 1, s, i, caps)
                ELSE NoMatch
           [] e.t = "look" ->
                IF Match(e.p, 1, s, i, caps).ok THEN Match(p, j + 1, s, i, caps)
                ELSE NoMatch

TryRep(p, j, s, i, n, caps) ==
    IF n < p[j].min THEN NoMatch
    ELSE LET r == Match(p, j + 1, s, i + n, caps) IN
         IF r.ok THEN r ELSE TryRep(p, j, s, i, n - 1, caps)

TryAlt(p, j, s, i, o, caps) ==
    IF o > Len(p[j].opts) THEN NoMatch
    ELSE LET r == IF StartsAt(s, p[j].opts[o], i)
                  THEN Match(p, j + 1, s, i + Len(p[j].opts[o]), caps)
                  ELSE NoMatch IN
         IF r.ok THEN r ELSE TryAlt(p, j, s, i, o + 1, caps)

RECURSIVE Expand(_, _, _)
\* the replacement template with its group references filled in
Expand(repl, s, caps) ==
    IF Len(repl) = 0 THEN ""
    ELSE (IF repl[1].t = "lit" THEN repl[1].s
          ELSE SubSeq(s, caps[repl[1].g][1], caps[repl[1].g][2]))
         \o Expand(Tail(repl), s, caps)

RECURSIVE SubFrom(_, _, _, _)
\* the part of re.sub from position i on: the text up to the leftmost match is kept,
\* the match replaced, and the scan goes on after it
SubFrom(p, repl, s, i) ==
    LET found == {j \in i..Len(s) : Match(p, 1, s, j, NoCaps).ok} IN
    IF found = {} THEN SubSeq(s, i, Len(s))
    ELSE LET r == Match(p, 1, s, Min(found), NoCaps) IN
         SubSeq(s, i, Min(found) - 1) \o Expand(repl, s, r.caps) \o SubFrom(p, repl, s, r.end)

\* re.sub(p, repl, s) for a pattern that matches no empty text
ReSub(p, repl, s) == SubFrom(p, repl, s, 1)

RECURSIVE ApplyPatterns(_, _)
\* for pattern, replacement in patterns: content = re.sub(pattern, replacement, content)
ApplyPatterns(patterns, text) ==
    IF Len(patterns) = 0 THEN text
    ELSE ApplyPatterns(Tail(patterns), ReSub(patterns[1][1], patterns[1][2], text))

(***************************************************************************)
(* File-system steps shared by the scripts.                                *)
(*   with open(path, 'w') as f:   truncates the file                       *)
(*       f.write(content)         the text reaches the disk, or the write  *)
(*                                fails with none or half of it on disk    *)
(***************************************************************************)
Exists(f) == disk[f].exists

OpenForWriting(f, next) ==
    /\ disk' = [disk EXCEPT ![f] = File("")]
    /\ writes' = [writes EXCEPT ![f] = @ + 1]
    /\ pc' = next
    /\ UNCHANGED <<pre, k, content, original_content, fixed_count, run>>

WriteContent(f, next, nextk) ==
    /\ disk' = [disk EXCEPT ![f] = File(content)]
    /\ pc' = next
    /\ k' = nextk
    /\ UNCHANGED <<pre, content, original_content, fixed_count, writes, run>>

WriteFailure(f) ==
    /\ \E n \in {0, Len(content) \div 2} :
          disk' = [disk EXCEPT ![f] = File(SubSeq(content, 1, n))]
    /\ pc' = "io_error"
    /\ UNCHANGED <<pre, k, content, original_content, fixed_count, writes, run>>

\* the script is started again on the files the previous run left
StartAgain(files, first) ==
    /\ run < MaxRuns
    /\ run' = run + 1
    /\ pre' = disk
    /\ writes' = [f \in files |-> 0]
    /\ pc' = first
    /\ k' = 1
    /\ content' = ""
    /\ original_content' = ""
    /\ fixed_count' = 0
    /\ UNCHANGED disk

RECURSIVE LineSeqs(_, _)
\* the sequences of at most n lines of pool
LineSeqs(pool, n) ==
    IF n = 0 THEN {<<>>}
    ELSE LET shorter == LineSeqs(pool, n - 1) IN
         shorter \cup {<<l>> \o ls : l \in pool, ls \in shorter}

RECURSIVE Texts(_, _)
\* the texts made of at most n pieces of chunks
Texts(chunks, n) ==
    IF n = 0 THEN {""}
    ELSE LET shorter == Texts(chunks, n - 1) IN
         shorter \cup {c \o t : c \in chunks, t \in shorter}

(***************************************************************************)
(* fix-regex.py                                                            *)
(***************************************************************************)
RouterPath == "lambda/api/router.ts"
TenantPath == "lambda/api/middleware/tenant.ts"
RegexFiles == {RouterPath, TenantPath}

RouterChunks == {"[^\\/]", "+"}
TenantChunks == {"\\", "/", "\r\n"}

\* lines 15-16
RouterFix(text) == Replace(Replace(text, "[^\\/]+", "[^/]+"), "[^\\/]", "[^/]")

\* line 29
TenantFix(text) == Replace(text, "\\/", "/")

InitRegex ==
    /\ \E r \in {Missing} \cup {File(t) : t \in Texts(RouterChunks, MaxChunks)},
          t \in {Missing} \cup {File(t) : t \in Texts(TenantChunks, MaxChunks)} :
            disk = [f \in RegexFiles |-> IF f = RouterPath THEN r ELSE t]
    /\ pre = disk
    /\ pc = "router_read"
    /\ k = 1
    /\ content = ""
    /\ original_content = ""
    /\ fixed_count = 0
    /\ writes = [f \in RegexFiles |-> 0]
    /\ run = 1

\* lines 11-16: open(router_path, 'r') raises FileNotFoundError for a missing file
RouterRead ==
    /\ pc = "router_read"
    /\ IF Exists(RouterPath)
       THEN /\ original_content' = ReadText(disk[RouterPath].text)
            /\ content' = RouterFix(ReadText(disk[RouterPath].text))
            /\ pc' = "router_open"
       ELSE /\ pc' = "not_found_error"
            /\ UNCHANGED <<content, original_content>>
    /\ UNCHANGED <<disk, pre, k, fixed_count, writes, run>>

\* line 18
RouterOpen == pc = "router_open" /\ OpenForWriting(RouterPath, "router_write")

\* line 19
RouterWrite == pc = "router_write" /\ WriteContent(RouterPath, "tenant_read", k)

RouterWriteFails == pc = "router_write" /\ WriteFailure(RouterPath)

\* lines 25-29
TenantRead ==
    /\ pc = "tenant_read"
    /\ IF Exists(TenantPath)
       THEN /\ original_content' = ReadText(disk[TenantPath].text)
            /\ content' = TenantFix(ReadText(disk[TenantPath].text))
            /\ pc' = "tenant_open"
       ELSE /\ pc' = "done"
            /\ UNCHANGED <<content, original_content>>
    /\ UNCHANGED <<disk, pre, k, fixed_count, writes, run>>

\* line 31
TenantOpen == pc = "tenant_open" /\ OpenForWriting(TenantPath, "tenant_write")

\* line 32
TenantWrite == pc = "tenant_write" /\ WriteContent(TenantPath, "done", k)

TenantWriteFails == pc = "tenant_write" /\ WriteFailure(TenantPath)

RegexAgain == pc = "done" /\ StartAgain(RegexFiles, "router_read")

NextRegex ==
    \/ RouterRead
    \/ RouterOpen
    \/ RouterWrite
    \/ RouterWriteFails
    \/ TenantRead
    \/ TenantOpen
    \/ TenantWrite
    \/ TenantWriteFails
    \/ RegexAgain

SpecRegex == InitRegex /\ [][NextRegex]_vars

(***************************************************************************)
(* final-typescript-fixes.py                                               *)
(***************************************************************************)
\* name:\s*any
KeyAny(name) == <<Lit(name \o ":"), Rep(Whitespace, 0), Lit("any")>>

\* lines 33-39
common_patterns == <<
    <<  <<WordB, Lit("any"), WordB, Look(<<Rep(Whitespace, 0), One(Chars(",;)]}"))>>)>>,
        <<T("unknown")>>  >>,
    <<  <<Lit(":"), Rep(Whitespace, 0), Lit("any"), Rep(Whitespace, 0), Lit("=")>>,
        <<T(": unknown =")>>  >>,
    <<  <<Lit("<any>")>>, <<T("<unknown>")>>  >>,
    <<  <<Lit("Array<any>")>>, <<T("Array<unknown>")>>  >>,
    <<  <<Lit("any[]")>>, <<T("unknown[]")>>  >>  >>

\* lines 42-124
fixes == <<
    [file |-> "lambda/api/handlers/agents.ts",
     patterns |-> <<
        <<KeyAny("body"), <<T("body: RequestBody")>> >>,
        <<KeyAny("params"), <<T("params: Record<string, string>")>> >>,
        <<KeyAny("query"), <<T("query: Record<string, unknown>")>> >>,
        <<KeyAny("event"), <<T("event: APIGatewayEvent")>> >> >> \o common_patterns],
    [file |-> "lambda/api/handlers/analytics.ts",
     patterns |-> <<
        <<KeyAny("event"), <<T("event: APIGatewayEvent")>> >>,
        <<KeyAny("metrics"), <<T("metrics: Record<string, unknown>")>> >> >> \o common_patterns],
    [file |-> "lambda/api/handlers/billing.ts",
     patterns |-> <<
        <<KeyAny("stripeEvent"),
          <<T("stripeEvent: { type: string; data: Record<string, unknown> }")>> >> >>
        \o common_patterns],
    [file |-> "lambda/api/handlers/webhooks.ts",
     patterns |-> <<
        <<KeyAny("payload"), <<T("payload: Record<string, unknown>")>> >>,
        <<KeyAny("webhook"), <<T("webhook: WebhookEvent")>> >> >> \o common_patterns],
    [file |-> "lambda/api/middleware/auth.ts",
     patterns |-> <<
        <<KeyAny("event"), <<T("event: APIGatewayEvent")>> >>,
        <<KeyAny("context"), <<T("context: APIGatewayContext")>> >> >> \o common_patterns],
    [file |-> "lambda/api/utils/api.ts",
     patterns |-> <<
        <<KeyAny("data"), <<T("data: unknown")>> >>,
        <<KeyAny("error"), <<T("error: Error | unknown")>> >> >> \o common_patterns],
    [file |-> "lambda/api/utils/database.ts",
     patterns |-> <<
        <<KeyAny("item"), <<T("item: Record<string, unknown>")>> >>,
        <<KeyAny("result"), <<T("result: QueryResult")>> >> >> \o common_patterns],
    [file |-> "src/components/auth/AuthComponents.tsx",
     patterns |-> <<
        <<KeyAny("props"), <<T("props: Record<string, unknown>")>> >>,
        <<<<Lit("React.FC<any>")>>, <<T("React.FC<Record<string, unknown>>")>> >> >>
        \o common_patterns],
    [file |-> "src/hooks/useApiServices.ts",
     patterns |-> <<
        <<KeyAny("response"), <<T("response: unknown")>> >>,
        <<KeyAny("error"), <<T("error: Error | unknown")>> >> >> \o common_patterns],
    [file |-> "lambda/tests/e2e/experiment-workflow.test.ts",
     patterns |-> <<
        <<  <<Lit("let"), Rep(Whitespace, 1), Open(1),
              Alt(<<"experimentId", "datasetId">>), Close(1),
              Rep(Whitespace, 0), Lit("=")>>,
            <<T("const "), G(1), T(" =")>>  >> >> \o common_patterns] >>

agent_types_path == "src/components/agent-builder/types.ts"
observatory_path == "lambda/observatory-api/handler.ts"

FixFiles == {fixes[i].file : i \in 1..Len(fixes)}
TsFiles == FixFiles \cup {agent_types_path, observatory_path}

\* lines 139-140
EmptyInterfaceFix(text) ==
    LET extended == ReSub(
            <<Lit("interface"), Rep(Whitespace, 1), Open(1), Rep(WordChars, 1), Close(1),
              Rep(Whitespace, 1), Lit("extends"), Rep(Whitespace, 1),
              Open(2), NRep({"{"}, 1), Close(2),
              Rep(Whitespace, 0), Lit("{"), Rep(Whitespace, 0), Lit("}")>>,
            <<T("type "), G(1), T(" = "), G(2)>>, text)
    IN  ReSub(
            <<Lit("interface"), Rep(Whitespace, 1), Open(1), Rep(WordChars, 1), Close(1),
              Rep(Whitespace, 0), Lit("{"), Rep(Whitespace, 0), Lit("}")>>,
            <<T("interface "), G(1), T(" {\n  [key: string]: unknown;\n}")>>, extended)

IsDeclaration(line) ==
    StartsWith(line, "const ") \/ StartsWith(line, "let ") \/ StartsWith(line, "var ")

RECURSIVE WrapScan(_, _, _)
\* lines 158-173: the loop over enumerate(lines), from index i (counted from 1)
WrapScan(lines, i, in_switch) ==
    IF i > Len(lines) THEN <<>>
    ELSE LET line == lines[i] IN
         IF Contains(line, "switch") /\ Contains(line, "{")
         THEN <<line>> \o WrapScan(lines, i + 1, TRUE)
         ELSE IF in_switch /\ Contains(line, "}") /\ ~Contains(line, "case")
         THEN <<line>> \o WrapScan(lines, i + 1, FALSE)
         ELSE IF /\ in_switch
                 /\ StartsWith(Strip(line), "case")
                 /\ Contains(line, ":")
                 /\ i + 1 <= Len(lines)
                 /\ IsDeclaration(Strip(lines[i + 1]))
         THEN LET next_line == Strip(lines[i + 1]) IN
              <<line, Replace(lines[i + 1], next_line, "        {"), "        " \o next_line>>
              \o WrapScan(lines, i + 1, in_switch)
         ELSE <<line>> \o WrapScan(lines, i + 1, in_switch)

\* lines 154-176
WrapCaseDeclarations(text) == JoinLines(WrapScan(SplitLines(text), 1, FALSE))

FixTexts == {"f(event: any, data:any): any[];", "const ok: unknown = 1;"}
TypesTexts == {"interface A {}", "interface B extends C {}", "type A = B;"}
ObservatoryTexts == {"switch (x) {\n  case 1:\n    const a = 1;\n}", "case 1:\nlet a;", "run();\r\n"}

TsTexts(f) ==
    IF f = agent_types_path THEN TypesTexts
    ELSE IF f = observatory_path THEN ObservatoryTexts
    ELSE FixTexts

InitTs ==
    /\ \E present \in {S \in SUBSET TsFiles : Cardinality(S) <= MaxPresent} :
        \E texts \in [present -> FixTexts \cup TypesTexts \cup ObservatoryTexts] :
            /\ \A f \in present : texts[f] \in TsTexts(f)
            /\ disk = [f \in TsFiles |-> IF f \in present THEN File(texts[f]) ELSE Missing]
    /\ pre = disk
    /\ pc = "fix_file"
    /\ k = 1
    /\ content = ""
    /\ original_content = ""
    /\ fixed_count = 0
    /\ writes = [f \in TsFiles |-> 0]
    /\ run = 1

\* line 128: the position after entry k - 1 of the loop over fixes
AfterFix(nextk) == IF nextk > Len(fixes) THEN "types_read" ELSE "fix_file"

\* lines 8-19 and 25: fix_file up to its decision to write; a False return goes on to
\* the next entry
FixFileRead ==
    /\ pc = "fix_file"
    /\ LET file_path == fixes[k].file IN
        IF ~Exists(file_path)
        THEN /\ pc' = AfterFix(k + 1)
             /\ k' = k + 1
             /\ UNCHANGED <<content, original_content>>
        ELSE /\ original_content' = ReadText(disk[file_path].text)
             /\ content' = ApplyPatterns(fixes[k].patterns, ReadText(disk[file_path].text))
             /\ IF content' # original_content'
                THEN pc' = "fix_open" /\ k' = k
                ELSE pc' = AfterFix(k + 1) /\ k' = k + 1
    /\ UNCHANGED <<disk, pre, fixed_count, writes, run>>

\* line 20
FixFileOpen == pc = "fix_open" /\ OpenForWriting(fixes[k].file, "fix_write")

\* line 21
FixFileWrite == pc = "fix_write" /\ WriteContent(fixes[k].file, "fix_return", k)

FixFileWriteFails == pc = "fix_write" /\ WriteFailure(fixes[k].file)

\* lines 23 and 129-130: fix_file returns True
FixFileCounted ==
    /\ pc = "fix_return"
    /\ fixed_count' = fixed_count + 1
    /\ k' = k + 1
    /\ pc' = AfterFix(k + 1)
    /\ UNCHANGED <<disk, pre, content, original_content, writes, run>>

\* lines 134-140
TypesRead ==
    /\ pc = "types_read"
    /\ IF Exists(agent_types_path)
       THEN /\ original_content' = ReadText(disk[agent_types_path].text)
            /\ content' = EmptyInterfaceFix(ReadText(disk[agent_types_path].text))
            /\ pc' = "types_open"
       ELSE /\ pc' = "obs_read"
            /\ UNCHANGED <<content, original_content>>
    /\ UNCHANGED <<disk, pre, k, fixed_count, writes, run>>

\* line 142
TypesOpen == pc = "types_open" /\ OpenForWriting(agent_types_path, "types_write")

\* line 143
TypesWrite == pc = "types_write" /\ WriteContent(agent_types_path, "types_count", k)

TypesWriteFails == pc = "types_write" /\ WriteFailure(agent_types_path)

\* line 145
TypesCounted ==
    /\ pc = "types_count"
    /\ fixed_count' = fixed_count + 1
    /\ pc' = "obs_read"
    /\ UNCHANGED <<disk, pre, k, content, original_content, writes, run>>

\* lines 149-173
ObservatoryRead ==
    /\ pc = "obs_read"
    /\ IF Exists(observatory_path)
       THEN /\ original_content' = ReadText(disk[observatory_path].text)
            /\ content' = WrapCaseDeclarations(ReadText(disk[observatory_path].text))
            /\ pc' = "obs_open"
       ELSE /\ pc' = "done"
            /\ UNCHANGED <<content, original_content>>
    /\ UNCHANGED <<disk, pre, k, fixed_count, writes, run>>

\* line 175
ObservatoryOpen == pc = "obs_open" /\ OpenForWriting(observatory_path, "obs_write")

\* line 176
ObservatoryWrite == pc = "obs_write" /\ WriteContent(observatory_path, "obs_count", k)

ObservatoryWriteFails == pc = "obs_write" /\ WriteFailure(observatory_path)

\* line 178
ObservatoryCounted ==
    /\ pc = "obs_count"
    /\ fixed_count' = fixed_count + 1
    /\ pc' = "done"
    /\ UNCHANGED <<disk, pre, k, content, original_content, writes, run>>

TsAgain == pc = "done" /\ StartAgain(TsFiles, "fix_file")

NextTs ==
    \/ FixFileRead
    \/ FixFileOpen
    \/ FixFileWrite
    \/ FixFileWriteFails
    \/ FixFileCounted
    \/ TypesRead
    \/ TypesOpen
    \/ TypesWrite
    \/ TypesWriteFails
    \/ TypesCounted
    \/ ObservatoryRead
    \/ ObservatoryOpen
    \/ ObservatoryWrite
    \/ ObservatoryWriteFails
    \/ ObservatoryCounted
    \/ TsAgain

SpecTs == InitTs /\ [][NextTs]_vars

(***************************************************************************)
(* The case-declaration scan of final-typescript-fixes.py on its own: the  *)
(* text is made of at most MaxLines lines of WrapLines.                    *)
(***************************************************************************)
WrapLines == {"switch (x) {", "  case 1:", "    const a = 1;", "}"}

InitWrap ==
    /\ original_content \in {JoinLines(ls) : ls \in LineSeqs(WrapLines, MaxLines)}
    /\ content = ""
    /\ pc = "obs_read"
    /\ disk = <<>>
    /\ pre = <<>>
    /\ k = 1
    /\ fixed_count = 0
    /\ writes = <<>>
    /\ run = 1

\* lines 154-176 applied to the text read
WrapApply ==
    /\ pc = "obs_read"
    /\ content' = WrapCaseDeclarations(original_content)
    /\ pc' = "obs_open"
    /\ UNCHANGED <<disk, pre, k, original_content, fixed_count, writes, run>>

NextWrap == WrapApply

SpecWrap == InitWrap /\ [][NextWrap]_vars

(***************************************************************************)
(* final-build-fixes.py                                                    *)
(***************************************************************************)
files_to_fix_const == <<"src/lib/api/agent-templates.ts", "src/lib/api/lab.ts">>
flow_nodes_path == "src/lib/api/flow-nodes.ts"
BuildFiles == {files_to_fix_const[i] : i \in 1..Len(files_to_fix_const)} \cup {flow_nodes_path}

Quotes == {"'", "\""}

\* lines 26-30
ConstReassignmentFix(text) ==
    LET filter == ReSub(
            <<Lit("const"), Rep(Whitespace, 1), Lit("filterExpression"), Rep(Whitespace, 0),
              Lit("="), Rep(Whitespace, 0), One(Quotes), NRep(Quotes, 0), One(Quotes),
              Lit(";")>>,
            <<T("let filterExpression = '';")>>, text)
        total == ReSub(
            <<Lit("const"), Rep(Whitespace, 1), Lit("totalDuration"), Rep(Whitespace, 0),
              Lit("="), Rep(Whitespace, 0), Lit("0;")>>,
            <<T("let totalDuration = 0;")>>, filter)
    IN  ReSub(
            <<Lit("const"), Rep(Whitespace, 1), Lit("completedRuns"), Rep(Whitespace, 0),
              Lit("="), Rep(Whitespace, 0), Lit("0;")>>,
            <<T("let completedRuns = 0;")>>, total)

\* lines 51-57: the conditions on lines[i] and lines[i-1], i counted from 1
RepairCondition(lines, i) ==
    /\ Contains(lines[i], "} else {")
    /\ i > 1
    /\ LET prev_line == Strip(lines[i - 1]) IN
        /\ prev_line # ""
        /\ ~(EndsWith(prev_line, ";") \/ EndsWith(prev_line, "}") \/ EndsWith(prev_line, "{"))
        /\ (Contains(prev_line, "const nodes") \/ Contains(prev_line, "nodes ="))

RECURSIVE IfAboveFromSecond(_, _)
\* IfAbove with the scan bounded by `j > 0`: the first line is taken without a look
IfAboveFromSecond(lines, j) ==
    IF j > 1 /\ ~Contains(lines[j], "if (") THEN IfAboveFromSecond(lines, j - 1) ELSE j

RECURSIVE IfAbove(_, _)
\* lines 59-61: the index the backward scan from j stops at; 0 when no line has "if ("
IfAbove(lines, j) ==
    IF j >= 1 /\ ~Contains(lines[j], "if (") THEN IfAbove(lines, j - 1) ELSE j

\* lines 68-74
fixed_section(if_condition) == <<
    if_condition,
    "        const nodes = await this.getTemplateNodes(templateId);",
    "      } else {",
    "        const nodes = await this.getTenantFlowNodes(undefined, 1000);",
    "      }" >>

\* the repair is made at line i
Repairs(lines, i) == RepairCondition(lines, i) /\ IfAbove(lines, i - 1) >= 1

RECURSIVE RepairScan(_, _)
\* lines 47-82: the while loop, from index i (counted from 1)
RepairScan(lines, i) ==
    IF i > Len(lines) THEN <<>>
    ELSE IF Repairs(lines, i)
    THEN fixed_section(Strip(lines[IfAbove(lines, i - 1)])) \o RepairScan(lines, i + 2)
    ELSE <<lines[i]>> \o RepairScan(lines, i + 1)

\* lines 43-84
IfElseRepair(text) == JoinLines(RepairScan(SplitLines(text), 1))

FlowLines == {"if (t) {", "  const nodes = f()", "} else {", "}"}
TemplatesTexts == {"const totalDuration = 0;"}
LabTexts == {"const filterExpression = 'a';", "let completedRuns = 0;\r\n"}

InitBuild ==
    /\ \E a \in {Missing} \cup {File(t) : t \in TemplatesTexts},
          l \in {File(t) : t \in LabTexts},
          n \in {Missing} \cup {File(JoinLines(ls)) : ls \in LineSeqs(FlowLines, MaxLines)} :
            disk = [f \in BuildFiles |->
                        IF f = files_to_fix_const[1] THEN a
                        ELSE IF f = files_to_fix_const[2] THEN l ELSE n]
    /\ pre = disk
    /\ pc = "const_read"
    /\ k = 1
    /\ content = ""
    /\ original_content = ""
    /\ fixed_count = 0
    /\ writes = [f \in BuildFiles |-> 0]
    /\ run = 1

\* line 17: the position after entry k - 1 of the loop over files_to_fix_const
AfterConst(nextk) == IF nextk > Len(files_to_fix_const) THEN "flow_read" ELSE "const_read"

\* lines 18-32
ConstRead ==
    /\ pc = "const_read"
    /\ LET full_path == files_to_fix_const[k] IN
        IF ~Exists(full_path)
        THEN /\ pc' = AfterConst(k + 1)
             /\ k' = k + 1
             /\ UNCHANGED <<content, original_content>>
        ELSE /\ original_content' = ReadText(disk[full_path].text)
             /\ content' = ConstReassignmentFix(ReadText(disk[full_path].text))
             /\ IF content' # original_content'
                THEN pc' = "const_open" /\ k' = k
                ELSE pc' = AfterConst(k + 1) /\ k' = k + 1
    /\ UNCHANGED <<disk, pre, fixed_count, writes, run>>

\* line 33
ConstOpen == pc = "const_open" /\ OpenForWriting(files_to_fix_const[k], "const_write")

\* line 34
ConstWrite ==
    pc = "const_write" /\ WriteContent(files_to_fix_const[k], AfterConst(k + 1), k + 1)

ConstWriteFails == pc = "const_write" /\ WriteFailure(files_to_fix_const[k])

\* lines 39-86
FlowRead ==
    /\ pc = "flow_read"
    /\ IF Exists(flow_nodes_path)
       THEN /\ original_content' = ReadText(disk[flow_nodes_path].text)
            /\ content' = IfElseRepair(ReadText(disk[flow_nodes_path].text))
            /\ pc' = IF content' # original_content' THEN "flow_open" ELSE "done"
       ELSE /\ pc' = "done"
            /\ UNCHANGED <<content, original_content>>
    /\ UNCHANGED <<disk, pre, k, fixed_count, writes, run>>

\* line 87
FlowOpen == pc = "flow_open" /\ OpenForWriting(flow_nodes_path, "flow_write")

\* line 88
FlowWrite == pc = "flow_write" /\ WriteContent(flow_nodes_path, "done", k)

FlowWriteFails == pc = "flow_write" /\ WriteFailure(flow_nodes_path)

BuildAgain == pc = "done" /\ StartAgain(BuildFiles, "const_read")

NextBuild ==
    \/ ConstRead
    \/ ConstOpen
    \/ ConstWrite
    \/ ConstWriteFails
    \/ FlowRead
    \/ FlowOpen
    \/ FlowWrite
    \/ FlowWriteFails
    \/ BuildAgain

SpecBuild == InitBuild /\ [][NextBuild]_vars

(***************************************************************************)
(* fix_final_const_errors.py                                               *)
(***************************************************************************)
FilterSearch == <<Lit("    // Default to scan with filters"), Rep(Whitespace, 0), Lit("\n"),
                  Rep(Whitespace, 0), Lit("const filterExpression = {};")>>
FilterReplace ==
    <<T("    // Default to scan with filters\n    let filterExpression: string | object = {};")>>
Declaration == "const expressionAttributeValues: Record<string, any> = {};"

\* lines 9-35; the list is named `fixes` in fix_const_errors
const_fixes == <<
    [file |-> "src/lib/api/lab.ts", search |-> FilterSearch, replace |-> FilterReplace],
    [file |-> "src/lib/api/flow-nodes.ts", search |-> FilterSearch, replace |-> FilterReplace],
    [file |-> "src/lib/api/dynamodb-client.ts",
     search |-> <<Lit("const dynamodbClient = null;")>>,
     replace |-> <<T("let dynamodbClient: DynamoDBDocumentClient | null = null;")>>],
    [file |-> "src/lib/api/lab.ts",
     search |-> <<Lit(Declaration)>>, replace |-> <<T(Declaration)>>],
    [file |-> "src/lib/api/flow-nodes.ts",
     search |-> <<Lit(Declaration)>>, replace |-> <<T(Declaration)>>] >>

ConstFiles == {const_fixes[i].file : i \in 1..Len(const_fixes)}

\* NeedsDeclaration without the test for an existing declaration
NeedsDeclarationUnguarded(file_path, text) ==
    /\ Contains(file_path, "lab.ts") \/ Contains(file_path, "flow-nodes.ts")
    /\ Contains(text, "expressionAttributeValues[")
    /\ Find(text, "// Default to scan with filters") # 0

\* NeedsDeclaration without the test for a use of expressionAttributeValues
NeedsDeclarationUnused(file_path, text) ==
    /\ Contains(file_path, "lab.ts") \/ Contains(file_path, "flow-nodes.ts")
    /\ ~Contains(text, "const expressionAttributeValues:")
    /\ Find(text, "// Default to scan with filters") # 0

\* lines 56-60 and 71-75: the guard of the fallback insertion
NeedsDeclaration(file_path, text) ==
    /\ Contains(file_path, "lab.ts") \/ Contains(file_path, "flow-nodes.ts")
    /\ Contains(text, "expressionAttributeValues[")
    /\ ~Contains(text, "const expressionAttributeValues:")
    /\ Find(text, "// Default to scan with filters") # 0

\* lines 59-65 and 74-80
InsertDeclaration(text) ==
    LET search_pos == Find(text, "// Default to scan with filters") - 1
        lines == SplitLines(SubSeq(text, 1, search_pos))
        insert_pos == Len(JoinLines(lines))
    IN  SubSeq(text, 1, insert_pos)
        \o "\n    const expressionAttributeValues: Record<string, any> = {};\n"
        \o SubSeq(text, insert_pos + 1, Len(text))

MarkerLine == "    // Default to scan with filters\n"
LabChunks == {MarkerLine, "    const filterExpression = {};\n",
              "    expressionAttributeValues[':t'] = t;\n"}
FlowNodesTexts == {MarkerLine \o "expressionAttributeValues[k] = v;",
                   MarkerLine \o "const filterExpression = {};"}
DynamoTexts == {"const dynamodbClient = null;"}

InitConst ==
    /\ \E l \in {Missing} \cup {File(t) : t \in Texts(LabChunks, MaxChunks)},
          n \in {Missing} \cup {File(t) : t \in FlowNodesTexts},
          d \in {Missing} \cup {File(t) : t \in DynamoTexts} :
            disk = [f \in ConstFiles |->
                        IF f = const_fixes[1].file THEN l
                        ELSE IF f = const_fixes[2].file THEN n ELSE d]
    /\ pre = disk
    /\ pc = "entry"
    /\ k = 1
    /\ content = ""
    /\ original_content = ""
    /\ fixed_count = 0
    /\ writes = [f \in ConstFiles |-> 0]
    /\ run = 1

\* line 37: the position after entry k - 1 of the loop over fixes
AfterEntry(nextk) == IF nextk > Len(const_fixes) THEN "done" ELSE "entry"

\* lines 38-48, 53-58, 71-73 and 85-86: one entry up to its decision to write
EntryRead ==
    /\ pc = "entry"
    /\ LET file_path == const_fixes[k].file IN
        IF ~Exists(file_path)
        THEN /\ pc' = AfterEntry(k + 1)
             /\ k' = k + 1
             /\ UNCHANGED <<content, original_content>>
        ELSE LET text == ReadText(disk[file_path].text)
                 new_content == ReSub(const_fixes[k].search, const_fixes[k].replace, text)
             IN  /\ original_content' = text
                 /\ IF new_content # text
                    THEN content' = new_content /\ pc' = "apply_open" /\ k' = k
                    ELSE IF NeedsDeclaration(file_path, text)
                    THEN content' = InsertDeclaration(text) /\ pc' = "insert_open" /\ k' = k
                    ELSE content' = new_content /\ pc' = AfterEntry(k + 1) /\ k' = k + 1
    /\ UNCHANGED <<disk, pre, fixed_count, writes, run>>

\* line 49
ApplyOpen == pc = "apply_open" /\ OpenForWriting(const_fixes[k].file, "apply_write")

\* line 50
ApplyWrite ==
    pc = "apply_write" /\ WriteContent(const_fixes[k].file, AfterEntry(k + 1), k + 1)

ApplyWriteFails == pc = "apply_write" /\ WriteFailure(const_fixes[k].file)

\* lines 67 and 82
InsertOpen == pc = "insert_open" /\ OpenForWriting(const_fixes[k].file, "insert_write")

\* lines 68 and 83
InsertWrite ==
    pc = "insert_write" /\ WriteContent(const_fixes[k].file, AfterEntry(k + 1), k + 1)

InsertWriteFails == pc = "insert_write" /\ WriteFailure(const_fixes[k].file)

ConstAgain == pc = "done" /\ StartAgain(ConstFiles, "entry")

NextConst ==
    \/ EntryRead
    \/ ApplyOpen
    \/ ApplyWrite
    \/ ApplyWriteFails
    \/ InsertOpen
    \/ InsertWrite
    \/ InsertWriteFails
    \/ ConstAgain

SpecConst == InitConst /\ [][NextConst]_vars

(***************************************************************************)
(* Properties.                                                             *)
(***************************************************************************)
\* number of places of s at which p occurs
Occurrences(s, p) == Cardinality({i \in 1..Len(s) : StartsAt(s, p, i)})

\* number of lines that are equal to l once stripped
LinesLike(lines, l) == Cardinality({i \in 1..Len(lines) : Strip(lines[i]) = Strip(l)})

\* the text the run of fix-regex.py is to leave in f, given the text it found there
RegexFinal(f, text) == IF f = RouterPath THEN RouterFix(text) ELSE TenantFix(text)

\* the text the run of final-typescript-fixes.py is to leave in f
TsFinal(f, text) ==
    IF f = agent_types_path THEN EmptyInterfaceFix(text)
    ELSE IF f = observatory_path THEN WrapCaseDeclarations(text)
    ELSE ApplyPatterns(fixes[CHOOSE i \in 1..Len(fixes) : fixes[i].file = f].patterns, text)

\* C1: idempotence -- when a second run of a script ends, every file holds the text the
\* first run left in it.
C1_SecondRunChangesNothing == (pc = "done" /\ run > 1) => disk = pre

\* C2: conditional write -- a file that a finished run leaves with the text it had was
\* never opened for writing during that run.
C2_WrittenOnlyWhenChanged ==
    pc = "done" =>
        \A f \in DOMAIN disk :
            (pre[f].exists /\ RegexFinal(f, ReadText(pre[f].text)) = ReadText(pre[f].text))
                => writes[f] = 0 /\ disk[f] = pre[f]

\* C3: not-found isolation -- no run ends in the exception of a missing file, and a
\* finished run has processed every file that exists; in particular tenant.ts is
\* processed when router.ts is missing.
C3_NotFoundIsolation ==
    /\ pc # "not_found_error"
    /\ pc = "done" =>
        \A f \in DOMAIN disk :
            pre[f].exists => disk[f] = File(RegexFinal(f, ReadText(pre[f].text)))

\* C4: whole-file atomicity -- at every moment of a run every target file holds either
\* its pre-run text or its complete final text.
C4_PreOrFinalText ==
    \A f \in DOMAIN disk :
        \/ disk[f] = pre[f]
        \/ disk[f] = File(TsFinal(f, ReadText(pre[f].text)))

\* the entry of fix_const_errors being processed left the text it read as it was
EntryIsIdentity ==
    /\ pc \in {"apply_open", "apply_write", "insert_open", "insert_write"}
    /\ ReSub(const_fixes[k].search, const_fixes[k].replace, original_content)
            = original_content

\* the fallback of fix_const_errors applies to the text read from file_path
FallbackCase(file_path, text) ==
    /\ file_path \in {"src/lib/api/lab.ts", "src/lib/api/flow-nodes.ts"}
    /\ Contains(text, "expressionAttributeValues[")
    /\ ~Contains(text, "const expressionAttributeValues:")
    /\ Contains(text, "// Default to scan with filters")

InsertedLine == "\n    const expressionAttributeValues: Record<string, any> = {};\n"

\* C5 as stated: byte-identical output counts as unchanged -- no step changes a file on
\* disk while the entry being processed is one whose search/replace left the text as
\* it was.
C5_IdentityEntryLeavesFile == [][EntryIsIdentity => disk' = disk]_vars

\* C5 as amended: a step changes a file on disk while the entry being processed left
\* the text as it was only in the fallback case (lab.ts or flow-nodes.ts, with a use of
\* expressionAttributeValues[ and the marker comment but no declaration), and a write
\* that then succeeds leaves the text read with the declaration line inserted once.
C5_IdentityEntryOnlyFallback ==
    [][(EntryIsIdentity /\ disk' # disk) =>
            /\ FallbackCase(const_fixes[k].file, original_content)
            /\ (pc = "insert_write" /\ pc' # "io_error") =>
                    /\ Occurrences(disk'[const_fixes[k].file].text, InsertedLine) = 1
                    /\ Replace(disk'[const_fixes[k].file].text, InsertedLine, "")
                            = original_content]_vars

\* C5 witness: both entries of lab.ts were processed with a use of
\* expressionAttributeValues[ in the file, and nothing was written
C5_Witness ==
    /\ pc = "done"
    /\ disk["src/lib/api/lab.ts"].exists
    /\ Contains(disk["src/lib/api/lab.ts"].text, "expressionAttributeValues[")
    /\ writes["src/lib/api/lab.ts"] = 0

\* the files whose original and final text differ in the run
ChangedFiles ==
    {f \in DOMAIN disk : pre[f].exists /\ ReadText(disk[f].text) # ReadText(pre[f].text)}

\* C6: the number reported as 'Files fixed' is the number of target files whose final
\* text differs from their original text.
C6_FixedCountIsChangedFiles == pc = "done" => fixed_count = Cardinality(ChangedFiles)

\* the if/else scan of flow-nodes.ts was made in this run: original_content is the
\* text read and content the text produced
FlowScanned ==
    \/ pc \in {"flow_open", "flow_write"}
    \/ pc = "done" /\ pre[flow_nodes_path].exists

NoIfAbove(lines, i) == \A j \in 1..(i - 1) : ~Contains(lines[j], "if (")

\* C7: unresolved structural context passes through -- a `} else {` line that meets the
\* repair condition with no `if (` line above it is emitted verbatim with every line
\* before it; when no repair resolves anywhere the output is the input and the file is
\* not written.
C7_UnresolvedPassesThrough ==
    FlowScanned =>
        LET lines == SplitLines(original_content)
            out == SplitLines(content)
        IN  /\ \A i \in 1..Len(lines) :
                    (RepairCondition(lines, i) /\ NoIfAbove(lines, i))
                        => Len(out) >= i /\ SubSeq(out, 1, i) = SubSeq(lines, 1, i)
            /\ (\A i \in 1..Len(lines) : RepairCondition(lines, i) => NoIfAbove(lines, i))
                    => /\ content = original_content
                       /\ writes[flow_nodes_path] = 0
                       /\ disk[flow_nodes_path] = pre[flow_nodes_path]

\* C7 witness: a finished run whose flow-nodes.ts has a `} else {` line that meets the
\* repair condition with no `if (` line above
C7_Witness ==
    /\ pc = "done"
    /\ pre[flow_nodes_path].exists
    /\ LET lines == SplitLines(original_content) IN
        \E i \in 1..Len(lines) : RepairCondition(lines, i) /\ NoIfAbove(lines, i)

\* C8: the case-declaration scan emits the replacement lines instead of the original
\* ones -- a declaration line occurs in the output as often as in the input, wrapped or
\* not.
C8_DeclarationEmittedOnce ==
    pc = "obs_open" =>
        LET lines == SplitLines(original_content)
            out == SplitLines(content)
        IN  \A i \in 1..Len(lines) :
                IsDeclaration(Strip(lines[i]))
                    => LinesLike(out, lines[i]) = LinesLike(lines, lines[i])

\* C9: guarded insertion happens at most once -- lab.ts and flow-nodes.ts, which start
\* without the declaration, never hold more than one inserted declaration line, and the
\* fallback never sets out to write a text that has the guard text.
C9_InsertedAtMostOnce ==
    /\ \A f \in DOMAIN disk :
            disk[f].exists
                => Occurrences(disk[f].text, "const expressionAttributeValues:") <= 1
    /\ pc \in {"insert_open", "insert_write"}
            => ~Contains(original_content, "const expressionAttributeValues:")

\* C9 witness: a second run has ended on a lab.ts that holds the inserted declaration
C9_Witness ==
    /\ pc = "done"
    /\ run > 1
    /\ disk["src/lib/api/lab.ts"].exists
    /\ Occurrences(disk["src/lib/api/lab.ts"].text, InsertedLine) = 1

\* C10: where the if/else repair is made at line i with the `if (` line j above, the
\* if-condition line is not repeated, the unterminated line i - 1 is gone, and the lines
\* before j and after i are emitted as they were.
C10_ReconstructsBlock ==
    FlowScanned =>
        LET lines == SplitLines(original_content)
            out == SplitLines(content)
        IN  \A i \in 1..Len(lines) :
                (RepairCondition(lines, i) /\ ~NoIfAbove(lines, i)) =>
                    LET j == CHOOSE j \in 1..(i - 1) :
                                /\ Contains(lines[j], "if (")
                                /\ \A h \in (j + 1)..(i - 1) : ~Contains(lines[h], "if (")
                    IN  /\ LinesLike(out, lines[j]) = LinesLike(lines, lines[j])
                        /\ \A o \in 1..Len(out) : out[o] # lines[i - 1]
                        /\ SubSeq(out, 1, j - 1) = SubSeq(lines, 1, j - 1)
                        /\ i < Len(lines) => \E o \in 1..Len(out) : out[o] = lines[i + 1]

====
